---- MODULE Spec2Model ----
(***************************************************************************)
(* KPI collector: the sampling scheduler (internal/collector), the query   *)
(* executor (internal/prometheus) and the storage layer                    *)
(* (internal/database), as a state machine.                                *)
(*                                                                         *)
(* Time is counted in units of 50ms since Run created its duration timer.  *)
(* A goroutine that can take a step takes it before the clock advances;    *)
(* the clock advances freely only while every goroutine is blocked (in a   *)
(* select with nothing ready, in wg.Wait, or in a slow backend query).     *)
(***************************************************************************)
EXTENDS Integers, Sequences, FiniteSets, Bags, TLC

\* ------------------------------------------------------------------ time
HUNDRED_MILLIS_DURATION_BUFFER == 2
Second == 10 * HUNDRED_MILLIS_DURATION_BUFFER
queryTimeoutPerKPI == 5 * Second

\* ---------------------------------------------------------------- bounds
MaxTime == 42
MaxDbFaults == 1
MaxVector == 2
NumClients == 2
MaxCalls == 4
MaxQueries == 3
MaxBatchQueries == 2
MaxEquivCalls == 3
MaxLabelLen == 2

\* ------------------------------------------------- configuration values
NilFrequency == <<>>

Query(id, freq) == [ID |-> id, SampleFrequency |-> freq]

\* A --thanos-url that parses as the host of a URL.
GoodAddress == "thanos.example"

\* The runs explored: kpis file contents, --frequency and --duration.
Scenarios ==
  { [kpis |-> <<Query("q1", <<Second>>), Query("q2", NilFrequency)>>,
     SamplingFreq |-> 12 * Second, Duration |-> 24,
     ThanosURL |-> GoodAddress],
    [kpis |-> <<Query("q1", NilFrequency), Query("q2", <<0>>)>>,
     SamplingFreq |-> Second, Duration |-> 38,
     ThanosURL |-> GoodAddress],
    [kpis |-> <<Query("q1", NilFrequency)>>,
     SamplingFreq |-> Second, Duration |-> 19,
     ThanosURL |-> GoodAddress],
    [kpis |-> <<Query("q1", <<Second \div 2>>), Query("q2", NilFrequency)>>,
     SamplingFreq |-> Second, Duration |-> 20,
     ThanosURL |-> GoodAddress],
    [kpis |-> <<Query("q1", <<Second>>)>>,
     SamplingFreq |-> 3 * Second, Duration |-> 2 * Second,
     ThanosURL |-> GoodAddress],
    [kpis |-> <<>>,
     SamplingFreq |-> Second, Duration |-> 5,
     ThanosURL |-> GoodAddress] }

\* A run whose --thanos-url does not parse as the host of a URL.
BadAddressScenarios ==
  { [kpis |-> <<Query("q1", NilFrequency)>>,
     SamplingFreq |-> Second, Duration |-> 2 * Second,
     ThanosURL |-> "thanos host"] }

\* Command lines that carry a configuration error: --duration, --frequency,
\* --db-type and --postgres-url.
BadFlags ==
  { [Duration |-> 0, SamplingFreq |-> Second,
     DatabaseType |-> "sqlite", PostgresURL |-> ""],
    [Duration |-> 0 - Second, SamplingFreq |-> Second,
     DatabaseType |-> "sqlite", PostgresURL |-> ""],
    [Duration |-> Second, SamplingFreq |-> 0,
     DatabaseType |-> "sqlite", PostgresURL |-> ""],
    [Duration |-> Second, SamplingFreq |-> 0 - Second,
     DatabaseType |-> "postgres", PostgresURL |-> "postgres://db"],
    [Duration |-> Second, SamplingFreq |-> Second,
     DatabaseType |-> "postgres", PostgresURL |-> ""] }

QueryIds == {"q1", "q2"}
ClusterNames == {"c1", "c2"}
ClusterTypes == {"", "ran", "core"}
DatabaseTypes == {"sqlite", "postgres"}

\* What the metrics backend answers for a query id during one run: the
\* result kinds it may return, how many labeled samples a vector holds,
\* and whether it may take time to answer.
PromBehaviours ==
  { [kinds |-> {"vector"}, n |-> MaxVector, slow |-> FALSE],
    [kinds |-> {"error"}, n |-> 0, slow |-> FALSE],
    [kinds |-> {"scalar"}, n |-> 0, slow |-> FALSE],
    [kinds |-> {"vector", "error"}, n |-> 0, slow |-> TRUE] }

\* ------------------------------------------------------- pure functions
\* ValidateFlags without its check of the duration.
ValidateFlagsNoDuration(fl) ==
  IF fl.ClusterName = "" THEN "cluster name is required"
  ELSE IF fl.ClusterType = "" THEN "cluster-type is required"
  ELSE IF fl.ClusterType \notin {"ran", "core", "hub"} THEN "invalid cluster-type"
  ELSE IF fl.SamplingFreq <= 0 THEN "sampling frequency must be greater than 0"
  ELSE IF fl.DatabaseType \notin {"sqlite", "postgres"} THEN "invalid db-type"
  ELSE IF fl.DatabaseType = "postgres" /\ fl.PostgresURL = ""
    THEN "postgres-url is required when db-type=postgres"
  ELSE ""

\* ValidateFlags: the error it returns, "" for nil. The authentication,
\* output-file, log-file and kpis-file flags are taken as given correctly.
ValidateFlags(fl) ==
  IF fl.ClusterName = "" THEN "cluster name is required"
  ELSE IF fl.ClusterType = "" THEN "cluster-type is required"
  ELSE IF fl.ClusterType \notin {"ran", "core", "hub"} THEN "invalid cluster-type"
  ELSE IF fl.SamplingFreq <= 0 THEN "sampling frequency must be greater than 0"
  ELSE IF fl.Duration <= 0 THEN "duration must be greater than 0"
  ELSE IF fl.DatabaseType \notin {"sqlite", "postgres"} THEN "invalid db-type"
  ELSE IF fl.DatabaseType = "postgres" /\ fl.PostgresURL = ""
    THEN "postgres-url is required when db-type=postgres"
  ELSE ""

\* NewDatabase returns an error instead of a Database.
NewDatabaseFails(fl) ==
  \/ fl.DatabaseType \notin {"sqlite", "postgres"}
  \/ fl.DatabaseType = "postgres" /\ fl.PostgresURL = ""

\* The override taken whenever it is present.
GetEffectiveFrequencyNonNil(q, defaultFreq) ==
  IF q.SampleFrequency # NilFrequency
    THEN q.SampleFrequency[1]
    ELSE defaultFreq

GetEffectiveFrequency(q, defaultFreq) ==
  IF q.SampleFrequency # NilFrequency /\ q.SampleFrequency[1] > 0
    THEN q.SampleFrequency[1]
    ELSE defaultFreq

RECURSIVE groupLoop(_, _, _, _)
groupLoop(queries, defaultFreq, i, kpisByFreq) ==
  IF i > Len(queries) THEN kpisByFreq
  ELSE LET effectiveFreq == GetEffectiveFrequency(queries[i], defaultFreq)
           group == IF effectiveFreq \in DOMAIN kpisByFreq
                      THEN kpisByFreq[effectiveFreq] ELSE <<>>
       IN groupLoop(queries, defaultFreq, i + 1,
                    [f \in DOMAIN kpisByFreq \cup {effectiveFreq} |->
                       IF f = effectiveFreq THEN Append(group, queries[i])
                                            ELSE kpisByFreq[f]])

\* The loop started at the second query.
groupKPIsByFrequencySkipFirst(queries, defaultFreq) ==
  groupLoop(queries, defaultFreq, 2, <<>>)

groupKPIsByFrequency(queries, defaultFreq) ==
  groupLoop(queries, defaultFreq, 1, <<>>)

\* int(d.Seconds()) of a non-negative duration
WholeSeconds(d) == d \div Second

\* integer division by zero panics
calculateTotalSamplesPanics(frequency, duration) == WholeSeconds(frequency) = 0

calculateTotalSamples(frequency, duration) ==
  (WholeSeconds(duration) \div WholeSeconds(frequency)) + 1

\* ------------------------------------------------------------ storage
\* clusters: set of rows [id, cluster_name, cluster_type]; cluster_name is
\* UNIQUE. query_errors: kpi_id -> errors, one row per kpi_id (UNIQUE).
\* query_results: bag of rows [kpi_id, cluster_id, metric_labels] (the
\* surrogate id and the server-assigned timestamps are left out).

ClusterRow(id, name, ctype) ==
  [id |-> id, cluster_name |-> name, cluster_type |-> ctype]

\* SELECT id FROM clusters WHERE cluster_name = ?  (QueryRow: first row)
SelectClusterId(cls, name) ==
  LET ids == {r.id : r \in {x \in cls : x.cluster_name = name}}
  IN IF ids = {} THEN 0 ELSE CHOOSE i \in ids : \A j \in ids : i <= j

\* First statement of GetOrCreateCluster: which statement comes next.
GetOrCreateClusterSelect(dbType, cls, name, ctype) ==
  LET id == SelectClusterId(cls, name)
  IN IF id # 0
       THEN IF dbType = "sqlite" /\ ctype # ""
              THEN [next |-> "update", id |-> id]
              ELSE [next |-> "return", id |-> id]
       ELSE [next |-> "insert", id |-> 0]

\* UPDATE clusters SET cluster_type = ? WHERE id = ?
UpdateClusterType(cls, id, ctype) ==
  {IF r.id = id THEN [r EXCEPT !.cluster_type = ctype] ELSE r : r \in cls}

\* The INSERT against a clusters table whose cluster_name is not UNIQUE.
SQLiteInsertClusterNoUnique(cls, seq, name, ctype) ==
  [clusters |-> cls \cup {ClusterRow(seq + 1, name, ctype)},
   seq |-> seq + 1, id |-> seq + 1, err |-> FALSE]

\* SQLite: INSERT INTO clusters (cluster_name, cluster_type) VALUES (?, ?)
SQLiteInsertCluster(cls, seq, name, ctype) ==
  IF \E r \in cls : r.cluster_name = name
    THEN [clusters |-> cls, seq |-> seq, id |-> 0, err |-> TRUE]
    ELSE [clusters |-> cls \cup {ClusterRow(seq + 1, name, ctype)},
          seq |-> seq + 1, id |-> seq + 1, err |-> FALSE]

\* Postgres: INSERT ... ON CONFLICT (cluster_name) DO UPDATE SET
\* cluster_name = EXCLUDED.cluster_name RETURNING id. The serial is drawn
\* before the conflict is detected.
PostgresInsertCluster(cls, seq, name) ==
  IF \E r \in cls : r.cluster_name = name
    THEN [clusters |-> cls, seq |-> seq + 1,
          id |-> SelectClusterId(cls, name), err |-> FALSE]
    ELSE [clusters |-> cls \cup {ClusterRow(seq + 1, name, "")},
          seq |-> seq + 1, id |-> seq + 1, err |-> FALSE]

\* Second statement of GetOrCreateCluster, when there is one.
GetOrCreateClusterWrite(dbType, cls, seq, next, id, name, ctype) ==
  IF next = "update"
    THEN [clusters |-> UpdateClusterType(cls, id, ctype), seq |-> seq,
          id |-> id, err |-> FALSE]
    ELSE IF dbType = "sqlite"
           THEN SQLiteInsertCluster(cls, seq, name, ctype)
           ELSE PostgresInsertCluster(cls, seq, name)

\* GetOrCreateCluster run from call to return with no other statement in
\* between.
GetOrCreateCluster(dbType, cls, seq, name, ctype) ==
  LET r == GetOrCreateClusterSelect(dbType, cls, name, ctype)
  IN IF r.next = "return"
       THEN [clusters |-> cls, seq |-> seq, id |-> r.id, err |-> FALSE]
       ELSE GetOrCreateClusterWrite(dbType, cls, seq, r.next, r.id, name, ctype)

\* The upsert written as INSERT OR REPLACE ... VALUES (?, 1).
IncrementQueryErrorReplace(errs, kpiID) ==
  [k \in DOMAIN errs \cup {kpiID} |-> IF k = kpiID THEN 1 ELSE errs[k]]

\* INSERT INTO query_errors (kpi_id, errors) VALUES (?, 1)
\* ON CONFLICT(kpi_id) DO UPDATE SET errors = errors + 1
IncrementQueryError(errs, kpiID) ==
  [k \in DOMAIN errs \cup {kpiID} |->
     IF k = kpiID
       THEN IF k \in DOMAIN errs THEN errs[k] + 1 ELSE 1
       ELSE errs[k]]

\* SELECT errors FROM query_errors WHERE kpi_id = ?; sql.ErrNoRows gives 0
GetQueryErrorCount(errs, kpiID) ==
  IF kpiID \in DOMAIN errs THEN errs[kpiID] ELSE 0

\* db.QueryRow(...).Scan(&count): the count and the error Scan gives.
ScanQueryErrors(errs, kpiID) ==
  IF kpiID \in DOMAIN errs
    THEN [count |-> errs[kpiID], err |-> "nil"]
    ELSE [count |-> 0, err |-> "sql.ErrNoRows"]

\* GetQueryErrorCount returning what Scan gave, sql.ErrNoRows included.
GetQueryErrorCountNoRowsIsError(errs, kpiID) == ScanQueryErrors(errs, kpiID)

\* GetQueryErrorCount, the (int, error) pair it returns.
GetQueryErrorCountResult(errs, kpiID) ==
  LET r == ScanQueryErrors(errs, kpiID)
  IN IF r.err = "sql.ErrNoRows" THEN [count |-> 0, err |-> "nil"] ELSE r

\* ----------------------------------------------------- label encoding
\* A label set (model.Metric) maps label names to label values; a value is a
\* sequence of characters, some of which JSON has to escape.
LabelNames == {"app", "ns"}
LabelChars == {"a", "\"", "\\", "<"}
LabelValues == UNION { [1..n -> LabelChars] : n \in 0..MaxLabelLen }
LabelSets == UNION { [S -> LabelValues] : S \in SUBSET LabelNames }

\* A string written with no escaping at all.
EscapeCharNone(c) == <<c>>

\* encoding/json writes a quote and a backslash behind a backslash and,
\* escaping HTML, '<' as the six characters of its u003c escape.
EscapeChar(c) ==
  IF c = "\"" THEN <<"\\", "\"">>
  ELSE IF c = "\\" THEN <<"\\", "\\">>
  ELSE IF c = "<" THEN <<"\\", "u", "0", "0", "3", "c">>
  ELSE <<c>>

RECURSIVE EscapeString(_)
EscapeString(str) ==
  IF str = <<>> THEN <<>> ELSE EscapeChar(Head(str)) \o EscapeString(Tail(str))

\* One "name":"value" member of the object.
MarshalMember(name, value) ==
  <<"\"", name, "\"", ":", "\"">> \o EscapeString(value) \o <<"\"">>

RECURSIVE MarshalMembers(_, _)
MarshalMembers(metric, names) ==
  IF names = <<>> THEN <<>>
  ELSE MarshalMember(Head(names), metric[Head(names)])
         \o (IF Tail(names) = <<>> THEN <<>> ELSE <<",">>)
         \o MarshalMembers(metric, Tail(names))

\* json.Marshal of a map writes the keys in byte order.
MarshalKeyOrder == <<"app", "ns">>
MarshalMetric(metric) ==
  <<"{">> \o MarshalMembers(metric,
               SelectSeq(MarshalKeyOrder, LAMBDA k : k \in DOMAIN metric))
         \o <<"}">>

\* The character a \uXXXX escape stands for.
FromHex(digits) == IF digits = <<"0", "0", "3", "c">> THEN "<" ELSE "?"

\* A JSON string read from position i, just behind its opening quote, up to
\* its closing quote.
RECURSIVE ParseString(_, _, _)
ParseString(text, i, acc) ==
  IF i > Len(text) THEN [val |-> acc, next |-> i]
  ELSE IF text[i] = "\"" THEN [val |-> acc, next |-> i + 1]
  ELSE IF text[i] = "\\" /\ i + 1 <= Len(text)
    THEN IF text[i + 1] = "u" /\ i + 5 <= Len(text)
           THEN ParseString(text, i + 6,
                            Append(acc, FromHex(SubSeq(text, i + 2, i + 5))))
           ELSE ParseString(text, i + 2, Append(acc, text[i + 1]))
  ELSE ParseString(text, i + 1, Append(acc, text[i]))

\* The members of a JSON object read from position i into a map.
RECURSIVE ParseMembers(_, _, _)
ParseMembers(text, i, acc) ==
  IF i > Len(text) \/ text[i] = "}" THEN acc
  ELSE IF text[i] \in {",", " ", ":"} THEN ParseMembers(text, i + 1, acc)
  ELSE IF text[i] = "\""
    THEN LET name == ParseString(text, i + 1, <<>>)
             colon == IF name.next + 1 <= Len(text) /\ text[name.next + 1] = " "
                        THEN name.next + 1 ELSE name.next
             value == ParseString(text, colon + 2, <<>>)
             key == IF name.val = <<>> THEN "" ELSE name.val[1]
         IN ParseMembers(text, value.next,
              [k \in DOMAIN acc \cup {key} |->
                 IF k = key THEN value.val ELSE acc[k]])
  ELSE acc

\* json.Unmarshal of an object's text into a map of strings.
UnmarshalMetric(text) ==
  IF text # <<>> /\ text[1] = "{" THEN ParseMembers(text, 2, <<>>) ELSE <<>>

\* A JSONB column keeps the parsed value and prints it back with its own
\* key order (shorter keys first), a space behind ':' and ',', and only the
\* quote and the backslash escaped.
JsonbKeyOrder == <<"ns", "app">>
JsonbEscapeChar(c) ==
  IF c = "\"" THEN <<"\\", "\"">>
  ELSE IF c = "\\" THEN <<"\\", "\\">>
  ELSE <<c>>

RECURSIVE JsonbEscapeString(_)
JsonbEscapeString(str) ==
  IF str = <<>> THEN <<>>
  ELSE JsonbEscapeChar(Head(str)) \o JsonbEscapeString(Tail(str))

RECURSIVE JsonbMembers(_, _)
JsonbMembers(metric, names) ==
  IF names = <<>> THEN <<>>
  ELSE <<"\"", Head(names), "\"", ":", " ", "\"">>
         \o JsonbEscapeString(metric[Head(names)]) \o <<"\"">>
         \o (IF Tail(names) = <<>> THEN <<>> ELSE <<",", " ">>)
         \o JsonbMembers(metric, Tail(names))

JsonbOut(text) ==
  LET metric == UnmarshalMetric(text)
  IN <<"{">> \o JsonbMembers(metric,
                  SelectSeq(JsonbKeyOrder, LAMBDA k : k \in DOMAIN metric))
            \o <<"}">>

\* The metric_labels text a SELECT gives back for a stored row: the TEXT
\* column of SQLite as written, the JSONB column of PostgreSQL as printed.
ReadMetricLabels(dbType, row) ==
  IF dbType = "postgres" THEN JsonbOut(row.metric_labels) ELSE row.metric_labels

\* The vector a successful query returns: n labeled samples.
Vector(n) ==
  [i \in 1..n |-> [Metric |-> [k \in {"ns"} |-> [j \in 1..i |-> "a"]],
                   Value |-> 1]]

\* The row written without its cluster id.
ResultRowNoCluster(clusterID, queryID, sample) ==
  [kpi_id |-> queryID, cluster_id |-> 0,
   metric_labels |-> MarshalMetric(sample.Metric)]

ResultRow(clusterID, queryID, sample) ==
  [kpi_id |-> queryID, cluster_id |-> clusterID,
   metric_labels |-> MarshalMetric(sample.Metric)]

\* StoreQueryResults inserts the samples in order, one statement each; the
\* first k are inserted (k < Len(vector) when statement k+1 fails).
RECURSIVE StoreQueryResults(_, _, _, _, _)
StoreQueryResults(rows, clusterID, queryID, vector, k) ==
  IF k = 0 THEN rows
  ELSE StoreQueryResults(rows, clusterID, queryID, vector, k - 1)
         (+) SetToBag({ResultRow(clusterID, queryID, vector[k])})

\* -------------------------------------------------------------- state
VARIABLES
  flags,             \* config.InputFlags of the run
  kpis,              \* config.KPIs.Queries
  prom,              \* behaviour of the metrics backend per query id
  now,               \* clock
  interruptChan,     \* a signal is waiting in interruptChan
  interrupted,       \* an interrupt was delivered during the run
  ctrl,              \* where Run is
  shutdownReason,
  ctxDone,           \* the shared context is cancelled
  wg,                \* sync.WaitGroup counter
  kpisByFreq,        \* frequency -> queries of the group
  task,              \* frequency -> state of the group's goroutine
  crashCause,        \* "none", or the panic that ended the process
  clusters, clusterSeq, query_errors, query_results,
  dbFaults,          \* storage statements that failed so far
  writesAfterReturn, \* a storage statement ran after Run returned
  batchAfterCancel,  \* a batch was begun after the context was cancelled
  client,            \* storage callers outside a run
  returnedIds,       \* cluster name -> ids GetOrCreateCluster returned
  incrementsDone,    \* caller -> kpi id -> IncrementQueryError calls that returned nil
  call,              \* a function called on its own: its name and arguments
  out,               \* what that call gave
  peer               \* a second store, given the same calls as the first

runVars == <<flags, kpis, prom, now, interruptChan, interrupted, ctrl,
             shutdownReason, ctxDone, wg, kpisByFreq, task, crashCause,
             writesAfterReturn, batchAfterCancel>>
dbVars == <<clusters, clusterSeq, query_errors, query_results, dbFaults>>
clientVars == <<client, returnedIds, incrementsDone>>
pureVars == <<call, out, peer>>
vars == <<runVars, dbVars, clientVars, pureVars>>

crashed == crashCause # "none"
Groups == DOMAIN kpisByFreq
TimerFired == now >= flags.Duration + HUNDRED_MILLIS_DURATION_BUFFER

\* A *sql.DB: sql.Open gives a new one each time it is called, named here
\* by the goroutine and the sample whose batch opened it.
NoHandle == <<>>
Handle(f, sampleNumber) == <<f, sampleNumber>>

NewTask ==
  [pc |-> "spawned", sampleCount |-> 0, totalSamples |-> 0,
   tickPending |-> FALSE, nextTick |-> 0, active |-> 0, stage |-> "none",
   next |-> "none", clusterID |-> 0, qi |-> 0, deadline |-> 0,
   db |-> NoHandle]

EmptyStore == [clusters |-> {}, clusterSeq |-> 0, query_errors |-> <<>>,
               query_results |-> EmptyBag]
NoCall == [fn |-> "none"]
NoResult == [state |-> "pending"]
Returned(v) == [state |-> "returned", value |-> v]

IdleClient == [pc |-> "idle", calls |-> 0, name |-> "", ctype |-> "",
               next |-> "none", id |-> 0]

\* --------------------------------------------------------------- Init
Init ==
  /\ \/ \E s \in Scenarios \cup BadAddressScenarios, db \in DatabaseTypes :
          /\ kpis = s.kpis
          /\ flags = [Duration |-> s.Duration, SamplingFreq |-> s.SamplingFreq,
                      ClusterName |-> "c1", ClusterType |-> "ran",
                      DatabaseType |-> db,
                      PostgresURL |-> IF db = "postgres" THEN "postgres://db" ELSE "",
                      ThanosURL |-> s.ThanosURL]
     \/ \E b \in BadFlags :
          /\ kpis = <<Query("q1", NilFrequency)>>
          /\ flags = [Duration |-> b.Duration, SamplingFreq |-> b.SamplingFreq,
                      ClusterName |-> "c1", ClusterType |-> "ran",
                      DatabaseType |-> b.DatabaseType,
                      PostgresURL |-> b.PostgresURL,
                      ThanosURL |-> GoodAddress]
  /\ prom \in [{kpis[i].ID : i \in 1..Len(kpis)} -> PromBehaviours]
  /\ now = 0
  /\ interruptChan = FALSE
  /\ interrupted = FALSE
  /\ ctrl = "cli"
  /\ shutdownReason = ""
  /\ ctxDone = FALSE
  /\ wg = 0
  /\ kpisByFreq = <<>>
  /\ task = <<>>
  /\ crashCause = "none"
  /\ \E existing \in BOOLEAN :
       /\ clusters = IF existing THEN {ClusterRow(1, "c1", "core")} ELSE {}
       /\ clusterSeq = IF existing THEN 1 ELSE 0
  /\ query_errors = <<>>
  /\ query_results = EmptyBag
  /\ dbFaults = 0
  /\ writesAfterReturn = FALSE
  /\ batchAfterCancel = FALSE
  /\ client = [c \in 1..NumClients |-> IdleClient]
  /\ returnedIds = [n \in ClusterNames |-> {}]
  /\ incrementsDone = [c \in 1..NumClients |-> [q \in QueryIds |-> 0]]
  /\ call = NoCall
  /\ out = NoResult
  /\ peer = EmptyStore

\* ---------------------------------------------------------- helpers
\* A storage statement may fail (disk full, connection drop, lock timeout).
FaultChoices == IF dbFaults < MaxDbFaults THEN {FALSE, TRUE} ELSE {FALSE}

StorageTouched == writesAfterReturn' = (writesAfterReturn \/ ctrl = "returned")

\* ------------------------------------------------------- controller
\* runCollect up to its call of collector.Run: ValidateFlags, then LoadKPIs
\* (the file decoded to kpis; an empty "kpis" array decodes without error).
runCollect ==
  /\ ~crashed
  /\ ctrl = "cli"
  /\ ctrl' = IF ValidateFlags(flags) # "" THEN "invalid flags" ELSE "start"
  /\ UNCHANGED <<flags, kpis, prom, now, interruptChan, interrupted,
                 shutdownReason, ctxDone, wg, kpisByFreq, task, crashCause,
                 writesAfterReturn, batchAfterCancel, dbVars, clientVars, pureVars>>

\* startKPIGoroutines: one goroutine per frequency group, wg.Add(1) each.
startKPIGoroutines ==
  /\ ~crashed
  /\ ctrl = "start"
  /\ kpisByFreq' = groupKPIsByFrequency(kpis, flags.SamplingFreq)
  /\ task' = [f \in DOMAIN kpisByFreq' |-> NewTask]
  /\ wg' = Cardinality(DOMAIN kpisByFreq')
  /\ ctrl' = "select"
  /\ UNCHANGED <<flags, kpis, prom, now, interruptChan, interrupted,
                 shutdownReason, ctxDone, crashCause, writesAfterReturn,
                 batchAfterCancel, dbVars, clientVars, pureVars>>

\* shutdown without its wg.Wait().
shutdownNoWait ==
  /\ ctxDone' = TRUE
  /\ ctrl' = "returned"

\* shutdown: cancel(), then wg.Wait() blocks until the counter is zero.
shutdown ==
  /\ ctxDone' = TRUE
  /\ ctrl' = "wait"

\* Run's select, case <-durationTimer.C
RunDurationTimer ==
  /\ ~crashed
  /\ ctrl = "select"
  /\ TimerFired
  /\ shutdownReason' = "Duration completed"
  /\ shutdown
  /\ UNCHANGED <<flags, kpis, prom, now, interruptChan, interrupted, wg,
                 kpisByFreq, task, crashCause, writesAfterReturn,
                 batchAfterCancel, dbVars, clientVars, pureVars>>

\* Run's select, case <-interruptChan
RunInterrupted ==
  /\ ~crashed
  /\ ctrl = "select"
  /\ interruptChan
  /\ interruptChan' = FALSE
  /\ shutdownReason' = "Interrupted by user"
  /\ shutdown
  /\ UNCHANGED <<flags, kpis, prom, now, interrupted, wg, kpisByFreq, task,
                 crashCause, writesAfterReturn, batchAfterCancel, dbVars,
                 clientVars, pureVars>>

\* wg.Wait() returns, shutdown returns, Run returns.
RunReturn ==
  /\ ~crashed
  /\ ctrl = "wait"
  /\ wg = 0
  /\ ctrl' = "returned"
  /\ UNCHANGED <<flags, kpis, prom, now, interruptChan, interrupted,
                 shutdownReason, ctxDone, wg, kpisByFreq, task, crashCause,
                 writesAfterReturn, batchAfterCancel, dbVars, clientVars, pureVars>>

\* The operator presses Ctrl-C: os.Interrupt is put into interruptChan.
Interrupt ==
  /\ ~crashed
  /\ ctrl \in {"start", "select"}
  /\ ~interrupted
  /\ interruptChan' = TRUE
  /\ interrupted' = TRUE
  /\ UNCHANGED <<flags, kpis, prom, now, ctrl, shutdownReason, ctxDone, wg,
                 kpisByFreq, task, crashCause, writesAfterReturn,
                 batchAfterCancel, dbVars, clientVars, pureVars>>

\* ------------------------------------------------------ group tasks
\* runKPIs started with "go": the loop is back in its select at once.
runKPIsDetached(t, queries) ==
  IF Len(queries) = 0
    THEN [t EXCEPT !.pc = "select"]
    ELSE [t EXCEPT !.pc = "select", !.active = @ + 1, !.stage = "init"]

\* runKPIs: an empty group returns at once, otherwise RunQueries is entered
\* and the goroutine is inside it until it returns.
runKPIs(t, queries) ==
  IF Len(queries) = 0
    THEN [t EXCEPT !.pc = "select"]
    ELSE [t EXCEPT !.pc = "batch", !.active = @ + 1, !.stage = "init"]

\* RunQueries returning without its deferred db.Close().
RunQueriesReturnNoClose(t) ==
  [t EXCEPT !.pc = "select", !.active = @ - 1, !.stage = "none",
            !.next = "none", !.clusterID = 0, !.qi = 0, !.deadline = 0]

\* RunQueries returns to runKPIs, which returns to the loop's select; the
\* deferred db.Close() runs.
RunQueriesReturn(t) ==
  [t EXCEPT !.pc = "select", !.active = @ - 1, !.stage = "none",
            !.next = "none", !.clusterID = 0, !.qi = 0, !.deadline = 0,
            !.db = NoHandle]

\* setupPromClient: api.NewClient fails when "https://" + thanosURL does not
\* parse as a URL.
setupPromClientFails(fl) == fl.ThanosURL # GoodAddress

\* The timeout of the batch's context taken as the timeout of one query.
EnterQueryLoopOneTimeout(t, queries, clusterID) ==
  [t EXCEPT !.stage = "query", !.next = "none", !.clusterID = clusterID,
            !.qi = 1, !.deadline = now + queryTimeoutPerKPI]

\* context.WithTimeout, then the loop over the queries
EnterQueryLoop(t, queries, clusterID) ==
  [t EXCEPT !.stage = "query", !.next = "none", !.clusterID = clusterID,
            !.qi = 1, !.deadline = now + Len(queries) * queryTimeoutPerKPI]

\* RunQueries going on to its queries whatever setupPromClient returned.
RunQueriesSetupPromClientIgnoresError(t, queries, clusterID) ==
  EnterQueryLoop(t, queries, clusterID)

\* RunQueries behind GetOrCreateCluster: setupPromClient, whose error makes
\* it return, then the loop over the queries.
RunQueriesSetupPromClient(t, queries, clusterID) ==
  IF setupPromClientFails(flags) THEN RunQueriesReturn(t)
  ELSE EnterQueryLoop(t, queries, clusterID)

\* runKPIGroupLoop going to its select without running sample 1 first.
runKPIGroupLoopEnterWaitsForTick(f) ==
  /\ ~crashed
  /\ task[f].pc = "spawned"
  /\ IF calculateTotalSamplesPanics(f, flags.Duration)
       THEN /\ crashCause' = "integer divide by zero"
            /\ UNCHANGED task
       ELSE /\ task' = [task EXCEPT ![f] =
                 [@ EXCEPT !.pc = "select",
                           !.nextTick = now + f,
                           !.totalSamples = calculateTotalSamples(f, flags.Duration)]]
            /\ UNCHANGED crashCause
  /\ UNCHANGED <<flags, kpis, prom, now, interruptChan, interrupted, ctrl,
                 shutdownReason, ctxDone, wg, kpisByFreq, writesAfterReturn,
                 batchAfterCancel, dbVars, clientVars, pureVars>>

\* runKPIGroupLoop up to its first runKPIs: ticker, totalSamples, sample 1.
runKPIGroupLoopEnter(f) ==
  /\ ~crashed
  /\ task[f].pc = "spawned"
  /\ IF calculateTotalSamplesPanics(f, flags.Duration)
       THEN /\ crashCause' = "integer divide by zero"
            /\ UNCHANGED <<task, batchAfterCancel>>
       ELSE /\ task' = [task EXCEPT ![f] =
                 runKPIs([task[f] EXCEPT
                            !.nextTick = now + f,
                            !.totalSamples = calculateTotalSamples(f, flags.Duration),
                            !.sampleCount = 1],
                         kpisByFreq[f])]
            /\ batchAfterCancel' =
                 (batchAfterCancel \/ (ctxDone /\ Len(kpisByFreq[f]) > 0))
            /\ UNCHANGED crashCause
  /\ UNCHANGED <<flags, kpis, prom, now, interruptChan, interrupted, ctrl,
                 shutdownReason, ctxDone, wg, kpisByFreq, writesAfterReturn,
                 dbVars, clientVars, pureVars>>

\* The select's tick case when every batch runs under one process-wide lock.
runKPIGroupLoopTickSerialized(f) ==
  /\ ~crashed
  /\ task[f].pc = "select"
  /\ task[f].tickPending
  /\ \A g \in Groups \ {f} : task[g].active = 0
  /\ task' = [task EXCEPT ![f] =
        runKPIs([task[f] EXCEPT !.tickPending = FALSE, !.sampleCount = @ + 1],
                kpisByFreq[f])]
  /\ batchAfterCancel' = (batchAfterCancel \/ (ctxDone /\ Len(kpisByFreq[f]) > 0))
  /\ UNCHANGED <<flags, kpis, prom, now, interruptChan, interrupted, ctrl,
                 shutdownReason, ctxDone, wg, kpisByFreq, crashCause,
                 writesAfterReturn, dbVars, clientVars, pureVars>>

\* The loop's select, case <-ticker.C
runKPIGroupLoopTick(f) ==
  /\ ~crashed
  /\ task[f].pc = "select"
  /\ task[f].tickPending
  /\ task' = [task EXCEPT ![f] =
        runKPIs([task[f] EXCEPT !.tickPending = FALSE, !.sampleCount = @ + 1],
                kpisByFreq[f])]
  /\ batchAfterCancel' = (batchAfterCancel \/ (ctxDone /\ Len(kpisByFreq[f]) > 0))
  /\ UNCHANGED <<flags, kpis, prom, now, interruptChan, interrupted, ctrl,
                 shutdownReason, ctxDone, wg, kpisByFreq, crashCause,
                 writesAfterReturn, dbVars, clientVars, pureVars>>

\* The loop's select, case <-ctx.Done(): return, ticker.Stop(), wg.Done()
runKPIGroupLoopDone(f) ==
  /\ ~crashed
  /\ task[f].pc = "select"
  /\ ctxDone
  /\ task' = [task EXCEPT ![f] = [@ EXCEPT !.pc = "done", !.tickPending = FALSE]]
  /\ wg' = wg - 1
  /\ UNCHANGED <<flags, kpis, prom, now, interruptChan, interrupted, ctrl,
                 shutdownReason, ctxDone, kpisByFreq, crashCause,
                 writesAfterReturn, batchAfterCancel, dbVars, clientVars, pureVars>>

\* RunQueries: InitDatabaseWithConfig
RunQueriesInitDatabase(f) ==
  /\ ~crashed
  /\ task[f].active > 0
  /\ task[f].stage = "init"
  /\ IF NewDatabaseFails(flags)
       THEN /\ task' = [task EXCEPT ![f] = RunQueriesReturn(@)]
            /\ UNCHANGED dbFaults
       ELSE \E fail \in FaultChoices :
              IF fail
                THEN /\ task' = [task EXCEPT ![f] = RunQueriesReturn(@)]
                     /\ dbFaults' = dbFaults + 1
                ELSE /\ task' = [task EXCEPT ![f] =
                          [@ EXCEPT !.stage = "cluster_select",
                                    !.db = Handle(f, task[f].sampleCount)]]
                     /\ UNCHANGED dbFaults
  /\ UNCHANGED <<flags, kpis, prom, now, interruptChan, interrupted, ctrl,
                 shutdownReason, ctxDone, wg, kpisByFreq, crashCause,
                 writesAfterReturn, batchAfterCancel, clusters, clusterSeq,
                 query_errors, query_results, clientVars, pureVars>>

\* RunQueries: GetOrCreateCluster, its SELECT
RunQueriesClusterSelect(f) ==
  /\ ~crashed
  /\ task[f].active > 0
  /\ task[f].stage = "cluster_select"
  /\ LET r == GetOrCreateClusterSelect(flags.DatabaseType, clusters,
                                       flags.ClusterName, flags.ClusterType)
     IN task' = [task EXCEPT ![f] =
          IF r.next = "return"
            THEN RunQueriesSetupPromClient(@, kpisByFreq[f], r.id)
            ELSE [@ EXCEPT !.stage = "cluster_write", !.next = r.next,
                           !.clusterID = r.id]]
  /\ StorageTouched
  /\ UNCHANGED <<flags, kpis, prom, now, interruptChan, interrupted, ctrl,
                 shutdownReason, ctxDone, wg, kpisByFreq, crashCause,
                 batchAfterCancel, dbVars, clientVars, pureVars>>

\* RunQueries: GetOrCreateCluster, its UPDATE or INSERT; an error makes
\* RunQueries return before any query is executed.
RunQueriesClusterWrite(f) ==
  /\ ~crashed
  /\ task[f].active > 0
  /\ task[f].stage = "cluster_write"
  /\ \E fail \in FaultChoices :
       IF fail
         THEN /\ task' = [task EXCEPT ![f] = RunQueriesReturn(@)]
              /\ dbFaults' = dbFaults + 1
              /\ UNCHANGED <<clusters, clusterSeq>>
         ELSE LET w == GetOrCreateClusterWrite(flags.DatabaseType, clusters,
                         clusterSeq, task[f].next, task[f].clusterID,
                         flags.ClusterName, flags.ClusterType)
              IN /\ clusters' = w.clusters
                 /\ clusterSeq' = w.seq
                 /\ task' = [task EXCEPT ![f] =
                      IF w.err THEN RunQueriesReturn(@)
                               ELSE RunQueriesSetupPromClient(@, kpisByFreq[f], w.id)]
                 /\ UNCHANGED dbFaults
  /\ StorageTouched
  /\ UNCHANGED <<flags, kpis, prom, now, interruptChan, interrupted, ctrl,
                 shutdownReason, ctxDone, wg, kpisByFreq, crashCause,
                 batchAfterCancel, query_errors, query_results, clientVars, pureVars>>

\* RunQueries returning after its first executeQuery.
NextQueryReturns(t, queries) == RunQueriesReturn(t)

\* After executeQuery: the next query of the batch, or RunQueries returns.
NextQuery(t, queries) ==
  IF t.qi >= Len(queries) THEN RunQueriesReturn(t) ELSE [t EXCEPT !.qi = @ + 1]

\* executeQuery whose error path ends the batch.
executeQueryReturnsOnError(f) ==
  /\ ~crashed
  /\ task[f].active > 0
  /\ task[f].stage = "query"
  /\ LET t == task[f]
         q == kpisByFreq[f][t.qi]
         kinds == IF now >= t.deadline THEN {"error"} ELSE prom[q.ID].kinds
     IN \E kind \in kinds :
          \/ /\ kind = "error"
             /\ \E fail \in FaultChoices :
                  /\ query_errors' = IF fail THEN query_errors
                                     ELSE IncrementQueryError(query_errors, q.ID)
                  /\ dbFaults' = IF fail THEN dbFaults + 1 ELSE dbFaults
             /\ task' = [task EXCEPT ![f] = RunQueriesReturn(t)]
             /\ StorageTouched
             /\ UNCHANGED <<query_results, crashCause>>
          \/ /\ kind = "vector"
             /\ \E k \in 0..prom[q.ID].n :
                  /\ k < prom[q.ID].n => TRUE \in FaultChoices
                  /\ query_results' = StoreQueryResults(query_results,
                                        t.clusterID, q.ID, Vector(prom[q.ID].n), k)
                  /\ dbFaults' = IF k < prom[q.ID].n THEN dbFaults + 1 ELSE dbFaults
                  /\ writesAfterReturn' =
                       (writesAfterReturn \/ (prom[q.ID].n > 0 /\ ctrl = "returned"))
             /\ task' = [task EXCEPT ![f] = NextQuery(t, kpisByFreq[f])]
             /\ UNCHANGED <<query_errors, crashCause>>
          \/ /\ kind = "scalar"
             /\ crashCause' = "interface conversion"
             /\ UNCHANGED <<task, query_errors, query_results, dbFaults,
                            writesAfterReturn>>
  /\ UNCHANGED <<flags, kpis, prom, now, interruptChan, interrupted, ctrl,
                 shutdownReason, ctxDone, wg, kpisByFreq, batchAfterCancel,
                 clusters, clusterSeq, clientVars, pureVars>>

\* executeQuery for the current query of the batch: the backend's answer,
\* then IncrementQueryError or StoreQueryResults.
executeQuery(f) ==
  /\ ~crashed
  /\ task[f].active > 0
  /\ task[f].stage = "query"
  /\ LET t == task[f]
         q == kpisByFreq[f][t.qi]
         kinds == IF now >= t.deadline THEN {"error"} ELSE prom[q.ID].kinds
     IN \E kind \in kinds :
          \/ /\ kind = "error"
             /\ \E fail \in FaultChoices :
                  /\ query_errors' = IF fail THEN query_errors
                                     ELSE IncrementQueryError(query_errors, q.ID)
                  /\ dbFaults' = IF fail THEN dbFaults + 1 ELSE dbFaults
             /\ task' = [task EXCEPT ![f] = NextQuery(t, kpisByFreq[f])]
             /\ StorageTouched
             /\ UNCHANGED <<query_results, crashCause>>
          \/ /\ kind = "vector"
             /\ \E k \in 0..prom[q.ID].n :
                  /\ k < prom[q.ID].n => TRUE \in FaultChoices
                  /\ query_results' = StoreQueryResults(query_results,
                                        t.clusterID, q.ID, Vector(prom[q.ID].n), k)
                  /\ dbFaults' = IF k < prom[q.ID].n THEN dbFaults + 1 ELSE dbFaults
                  /\ writesAfterReturn' =
                       (writesAfterReturn \/ (prom[q.ID].n > 0 /\ ctrl = "returned"))
             /\ task' = [task EXCEPT ![f] = NextQuery(t, kpisByFreq[f])]
             /\ UNCHANGED <<query_errors, crashCause>>
          \/ /\ kind = "scalar"
             /\ crashCause' = "interface conversion"
             /\ UNCHANGED <<task, query_errors, query_results, dbFaults,
                            writesAfterReturn>>
  /\ UNCHANGED <<flags, kpis, prom, now, interruptChan, interrupted, ctrl,
                 shutdownReason, ctxDone, wg, kpisByFreq, batchAfterCancel,
                 clusters, clusterSeq, clientVars, pureVars>>

\* ------------------------------------------------------------ clock
\* The goroutine has nothing to do until something happens.
TaskBlocked(f) ==
  LET t == task[f]
  IN \/ t.pc = "done"
     \/ t.pc = "select" /\ ~t.tickPending /\ ~ctxDone /\ t.active = 0
     \/ /\ t.active > 0
        /\ t.stage = "query"
        /\ prom[kpisByFreq[f][t.qi].ID].slow
        /\ now < t.deadline

ControllerBlocked ==
  \/ ctrl = "select" /\ ~TimerFired /\ ~interruptChan
  \/ ctrl = "wait" /\ wg > 0

\* Time passing for tickers that fire once and are not re-armed.
AdvanceClockOneShot ==
  /\ ~crashed
  /\ now < MaxTime
  /\ ControllerBlocked
  /\ \A f \in Groups : TaskBlocked(f)
  /\ now' = now + 1
  /\ task' = [f \in Groups |->
       IF task[f].pc \notin {"spawned", "done"} /\ task[f].nextTick = now + 1
         THEN [task[f] EXCEPT !.tickPending = TRUE]
         ELSE task[f]]
  /\ UNCHANGED <<flags, kpis, prom, interruptChan, interrupted, ctrl,
                 shutdownReason, ctxDone, wg, kpisByFreq, crashCause,
                 writesAfterReturn, batchAfterCancel, dbVars, clientVars, pureVars>>

\* One unit of time passes; every ticker whose period ends puts a tick into
\* its channel (capacity 1: a tick that finds the channel full is dropped).
AdvanceClock ==
  /\ ~crashed
  /\ now < MaxTime
  /\ ControllerBlocked
  /\ \A f \in Groups : TaskBlocked(f)
  /\ now' = now + 1
  /\ task' = [f \in Groups |->
       IF task[f].pc \notin {"spawned", "done"} /\ task[f].nextTick = now + 1
         THEN [task[f] EXCEPT !.tickPending = TRUE, !.nextTick = @ + f]
         ELSE task[f]]
  /\ UNCHANGED <<flags, kpis, prom, interruptChan, interrupted, ctrl,
                 shutdownReason, ctxDone, wg, kpisByFreq, crashCause,
                 writesAfterReturn, batchAfterCancel, dbVars, clientVars, pureVars>>

Next ==
  \/ runCollect
  \/ startKPIGoroutines
  \/ RunDurationTimer
  \/ RunInterrupted
  \/ RunReturn
  \/ Interrupt
  \/ AdvanceClock
  \/ \E f \in Groups : runKPIGroupLoopEnter(f)
  \/ \E f \in Groups : runKPIGroupLoopTick(f)
  \/ \E f \in Groups : runKPIGroupLoopDone(f)
  \/ \E f \in Groups : RunQueriesInitDatabase(f)
  \/ \E f \in Groups : RunQueriesClusterSelect(f)
  \/ \E f \in Groups : RunQueriesClusterWrite(f)
  \/ \E f \in Groups : executeQuery(f)

Spec == Init /\ [][Next]_vars

\* The frequencies a group of the runs explored can have.
GroupFrequencies ==
  UNION { { GetEffectiveFrequency(s.kpis[i], s.SamplingFreq) :
              i \in 1..Len(s.kpis) } :
          s \in Scenarios \cup BadAddressScenarios }

\* A step of Run's goroutine (the main goroutine).
ControllerStep ==
  \/ runCollect
  \/ startKPIGoroutines
  \/ RunDurationTimer
  \/ RunInterrupted
  \/ RunReturn

\* A step of the goroutine of the group of frequency f.
TaskStep(f) ==
  /\ f \in Groups
  /\ \/ runKPIGroupLoopEnter(f)
     \/ runKPIGroupLoopTick(f)
     \/ runKPIGroupLoopDone(f)
     \/ RunQueriesInitDatabase(f)
     \/ RunQueriesClusterSelect(f)
     \/ RunQueriesClusterWrite(f)
     \/ executeQuery(f)

\* The run under a scheduler that lets every goroutine that can take a step
\* take it in the end, with a metrics backend and a storage that answer every
\* call; time passes, and nobody has to press Ctrl-C.
Fairness ==
  /\ WF_vars(ControllerStep)
  /\ WF_vars(AdvanceClock)
  /\ \A f \in GroupFrequencies : WF_vars(TaskStep(f))

SpecLive == Init /\ [][Next]_vars /\ Fairness

\* ------------------------------------------------ storage callers
\* The Database interface called directly by concurrent callers that share
\* one store: each statement is atomic, calls interleave between statements.
InitStore ==
  /\ kpis = <<>>
  /\ \E db \in DatabaseTypes :
       flags = [Duration |-> 0, SamplingFreq |-> 0, ClusterName |-> "",
                ClusterType |-> "", DatabaseType |-> db, PostgresURL |-> "",
                ThanosURL |-> GoodAddress]
  /\ prom = <<>>
  /\ now = 0
  /\ interruptChan = FALSE
  /\ interrupted = FALSE
  /\ ctrl = "off"
  /\ shutdownReason = ""
  /\ ctxDone = FALSE
  /\ wg = 0
  /\ kpisByFreq = <<>>
  /\ task = <<>>
  /\ crashCause = "none"
  /\ clusters = {}
  /\ clusterSeq = 0
  /\ query_errors = <<>>
  /\ query_results = EmptyBag
  /\ dbFaults = 0
  /\ writesAfterReturn = FALSE
  /\ batchAfterCancel = FALSE
  /\ client = [c \in 1..NumClients |-> IdleClient]
  /\ returnedIds = [n \in ClusterNames |-> {}]
  /\ incrementsDone = [c \in 1..NumClients |-> [q \in QueryIds |-> 0]]
  /\ call = NoCall
  /\ out = NoResult
  /\ peer = EmptyStore

\* Calls made so far by the callers 1..c.
RECURSIVE CallsMade(_)
CallsMade(c) == IF c = 0 THEN 0 ELSE client[c].calls + CallsMade(c - 1)

CallReturns(c) == [client[c] EXCEPT !.pc = "idle", !.name = "",
                                    !.ctype = "", !.next = "none", !.id = 0]

\* GetOrCreateCluster(db, name, ctype) is called and runs its SELECT.
CallGetOrCreateCluster(c) ==
  /\ ctrl = "off"
  /\ client[c].pc = "idle"
  /\ CallsMade(NumClients) < MaxCalls
  /\ \E name \in ClusterNames, ctype \in ClusterTypes :
       LET r == GetOrCreateClusterSelect(flags.DatabaseType, clusters, name, ctype)
       IN IF r.next = "return"
            THEN /\ client' = [client EXCEPT ![c] = [CallReturns(c) EXCEPT !.calls = @ + 1]]
                 /\ returnedIds' = [returnedIds EXCEPT ![name] = @ \cup {r.id}]
            ELSE /\ client' = [client EXCEPT ![c] =
                      [@ EXCEPT !.pc = "cluster_write", !.calls = @ + 1, !.name = name,
                                !.ctype = ctype, !.next = r.next, !.id = r.id]]
                 /\ UNCHANGED returnedIds
  /\ UNCHANGED <<pureVars, runVars, dbVars, incrementsDone>>

\* GetOrCreateCluster runs its UPDATE or INSERT and returns.
ReturnGetOrCreateCluster(c) ==
  /\ ctrl = "off"
  /\ client[c].pc = "cluster_write"
  /\ \E fail \in FaultChoices :
       IF fail
         THEN /\ dbFaults' = dbFaults + 1
              /\ UNCHANGED <<clusters, clusterSeq, returnedIds>>
         ELSE LET w == GetOrCreateClusterWrite(flags.DatabaseType, clusters,
                         clusterSeq, client[c].next, client[c].id,
                         client[c].name, client[c].ctype)
              IN /\ clusters' = w.clusters
                 /\ clusterSeq' = w.seq
                 /\ returnedIds' = IF w.err THEN returnedIds
                      ELSE [returnedIds EXCEPT ![client[c].name] = @ \cup {w.id}]
                 /\ UNCHANGED dbFaults
  /\ client' = [client EXCEPT ![c] = CallReturns(c)]
  /\ UNCHANGED <<pureVars, runVars, query_errors, query_results, incrementsDone>>

\* IncrementQueryError(db, kpiID): one statement.
CallIncrementQueryError(c) ==
  /\ ctrl = "off"
  /\ client[c].pc = "idle"
  /\ CallsMade(NumClients) < MaxCalls
  /\ \E kpiID \in QueryIds, fail \in FaultChoices :
       IF fail
         THEN /\ dbFaults' = dbFaults + 1
              /\ UNCHANGED <<query_errors, incrementsDone>>
         ELSE /\ query_errors' = IncrementQueryError(query_errors, kpiID)
              /\ incrementsDone' = [incrementsDone EXCEPT ![c][kpiID] = @ + 1]
              /\ UNCHANGED dbFaults
  /\ client' = [client EXCEPT ![c] = [CallReturns(c) EXCEPT !.calls = @ + 1]]
  /\ UNCHANGED <<pureVars, runVars, clusters, clusterSeq, query_results, returnedIds>>

NextStore ==
  \/ \E c \in 1..NumClients : CallGetOrCreateCluster(c)
  \/ \E c \in 1..NumClients : ReturnGetOrCreateCluster(c)
  \/ \E c \in 1..NumClients : CallIncrementQueryError(c)

SpecStore == InitStore /\ [][NextStore]_vars

\* ------------------------------------------------ functions on their own
\* The scheduler's pure functions applied to arguments of their own.
Overrides == {NilFrequency, <<0>>, <<0 - Second>>, <<Second>>, <<2 * Second>>}
DefaultFreqs == {Second, 2 * Second, 3 * Second}
PureDurations == {Second \div 2, Second, 3 * (Second \div 2), 2 * Second,
                  5 * (Second \div 2), 3 * Second, 9 * (Second \div 2)}

\* Query lists of up to MaxQueries queries, ids distinct.
QueryLists ==
  UNION { { [i \in 1..n |-> Query(<<"kpi", i>>, o[i])] : o \in [1..n -> Overrides] } :
          n \in 0..MaxQueries }

PureCalls ==
  { [fn |-> "groupKPIsByFrequency", queries |-> qs, defaultFreq |-> d] :
      qs \in QueryLists, d \in DefaultFreqs }
  \cup { [fn |-> "GetEffectiveFrequency", q |-> Query(<<"kpi", 1>>, o), defaultFreq |-> d] :
      o \in Overrides, d \in DefaultFreqs }
  \cup { [fn |-> "calculateTotalSamples", frequency |-> f, duration |-> d] :
      f \in PureDurations, d \in PureDurations }
  \cup { [fn |-> "StoreQueryResults", dbType |-> t, metric |-> m] :
      t \in DatabaseTypes, m \in LabelSets }

InitPure ==
  /\ kpis = <<>>
  /\ flags = [Duration |-> 0, SamplingFreq |-> 0, ClusterName |-> "",
              ClusterType |-> "", DatabaseType |-> "sqlite", PostgresURL |-> "",
              ThanosURL |-> GoodAddress]
  /\ prom = <<>>
  /\ now = 0
  /\ interruptChan = FALSE
  /\ interrupted = FALSE
  /\ ctrl = "pure"
  /\ shutdownReason = ""
  /\ ctxDone = FALSE
  /\ wg = 0
  /\ kpisByFreq = <<>>
  /\ task = <<>>
  /\ crashCause = "none"
  /\ clusters = {}
  /\ clusterSeq = 0
  /\ query_errors = <<>>
  /\ query_results = EmptyBag
  /\ dbFaults = 0
  /\ writesAfterReturn = FALSE
  /\ batchAfterCancel = FALSE
  /\ client = [c \in 1..NumClients |-> IdleClient]
  /\ returnedIds = [n \in ClusterNames |-> {}]
  /\ incrementsDone = [c \in 1..NumClients |-> [q \in QueryIds |-> 0]]
  /\ call \in PureCalls
  /\ out = NoResult
  /\ peer = EmptyStore

ApplyGroupKPIsByFrequency ==
  /\ ctrl = "pure"
  /\ call.fn = "groupKPIsByFrequency"
  /\ out = NoResult
  /\ out' = Returned(groupKPIsByFrequency(call.queries, call.defaultFreq))
  /\ UNCHANGED <<call, peer, runVars, dbVars, clientVars>>

ApplyGetEffectiveFrequency ==
  /\ ctrl = "pure"
  /\ call.fn = "GetEffectiveFrequency"
  /\ out = NoResult
  /\ out' = Returned(GetEffectiveFrequency(call.q, call.defaultFreq))
  /\ UNCHANGED <<call, peer, runVars, dbVars, clientVars>>

ApplyCalculateTotalSamples ==
  /\ ctrl = "pure"
  /\ call.fn = "calculateTotalSamples"
  /\ out = NoResult
  /\ out' = IF calculateTotalSamplesPanics(call.frequency, call.duration)
              THEN [state |-> "panic"]
              ELSE Returned(calculateTotalSamples(call.frequency, call.duration))
  /\ UNCHANGED <<call, peer, runVars, dbVars, clientVars>>

\* StoreQueryResults of one sample, then the stored row's label text is
\* selected and deserialized.
ApplyStoreQueryResults ==
  /\ ctrl = "pure"
  /\ call.fn = "StoreQueryResults"
  /\ out = NoResult
  /\ query_results' = StoreQueryResults(query_results, 1, "q1",
                         <<[Metric |-> call.metric, Value |-> 1]>>, 1)
  /\ out' = LET row == CHOOSE r \in BagToSet(query_results') : TRUE
            IN Returned(UnmarshalMetric(ReadMetricLabels(call.dbType, row)))
  /\ UNCHANGED <<call, peer, runVars, clusters, clusterSeq, query_errors,
                 dbFaults, clientVars>>

NextPure ==
  \/ ApplyGroupKPIsByFrequency
  \/ ApplyGetEffectiveFrequency
  \/ ApplyCalculateTotalSamples
  \/ ApplyStoreQueryResults

SpecPure == InitPure /\ [][NextPure]_vars

\* ------------------------------------------------ one batch on its own
\* RunQueries called once at t=0 for a group of up to MaxBatchQueries
\* queries, followed until it returns; the clock is read once per second.
BatchFrequency == Second
MaxBatchTime == MaxBatchQueries * queryTimeoutPerKPI + Second

BatchQueries(n) == [i \in 1..n |-> Query(<<"kpi", i>>, NilFrequency)]

InitBatch ==
  /\ \E n \in 1..MaxBatchQueries, db \in DatabaseTypes :
       /\ kpis = BatchQueries(n)
       /\ flags = [Duration |-> MaxBatchTime, SamplingFreq |-> BatchFrequency,
                   ClusterName |-> "c1", ClusterType |-> "ran",
                   DatabaseType |-> db,
                   PostgresURL |-> IF db = "postgres" THEN "postgres://db" ELSE "",
                   ThanosURL |-> GoodAddress]
  /\ prom \in [{kpis[i].ID : i \in 1..Len(kpis)} -> PromBehaviours]
  /\ now = 0
  /\ interruptChan = FALSE
  /\ interrupted = FALSE
  /\ ctrl = "batch"
  /\ shutdownReason = ""
  /\ ctxDone = FALSE
  /\ wg = 1
  /\ kpisByFreq = [f \in {BatchFrequency} |-> kpis]
  /\ task = [f \in {BatchFrequency} |->
               runKPIs([NewTask EXCEPT !.sampleCount = 1], kpis)]
  /\ crashCause = "none"
  /\ clusters = {}
  /\ clusterSeq = 0
  /\ query_errors = <<>>
  /\ query_results = EmptyBag
  /\ dbFaults = 0
  /\ writesAfterReturn = FALSE
  /\ batchAfterCancel = FALSE
  /\ client = [c \in 1..NumClients |-> IdleClient]
  /\ returnedIds = [n \in ClusterNames |-> {}]
  /\ incrementsDone = [c \in 1..NumClients |-> [q \in QueryIds |-> 0]]
  /\ call = NoCall
  /\ out = NoResult
  /\ peer = EmptyStore

\* A second passes while the batch waits for the backend's answer.
BatchClock ==
  /\ ~crashed
  /\ ctrl = "batch"
  /\ now < MaxBatchTime
  /\ \A f \in Groups : task[f].active > 0 /\ TaskBlocked(f)
  /\ now' = now + Second
  /\ UNCHANGED <<flags, kpis, prom, interruptChan, interrupted, ctrl,
                 shutdownReason, ctxDone, wg, kpisByFreq, task, crashCause,
                 writesAfterReturn, batchAfterCancel, dbVars, clientVars, pureVars>>

NextBatch ==
  \/ BatchClock
  \/ \E f \in Groups : RunQueriesInitDatabase(f)
  \/ \E f \in Groups : RunQueriesClusterSelect(f)
  \/ \E f \in Groups : RunQueriesClusterWrite(f)
  \/ \E f \in Groups : executeQuery(f)

SpecBatch == InitBatch /\ [][NextBatch]_vars

\* ------------------------------------------------ two backends side by side
\* The same sequence of Database calls, one call at a time, given to a
\* SQLiteDB (clusters, query_errors, query_results) and to a PostgresDB
\* (peer); out holds what the two returned.
InitEquiv ==
  /\ kpis = <<>>
  /\ flags = [Duration |-> 0, SamplingFreq |-> 0, ClusterName |-> "",
              ClusterType |-> "", DatabaseType |-> "sqlite", PostgresURL |-> "",
              ThanosURL |-> GoodAddress]
  /\ prom = <<>>
  /\ now = 0
  /\ interruptChan = FALSE
  /\ interrupted = FALSE
  /\ ctrl = "equiv"
  /\ shutdownReason = ""
  /\ ctxDone = FALSE
  /\ wg = 0
  /\ kpisByFreq = <<>>
  /\ task = <<>>
  /\ crashCause = "none"
  /\ clusters = {}
  /\ clusterSeq = 0
  /\ query_errors = <<>>
  /\ query_results = EmptyBag
  /\ dbFaults = 0
  /\ writesAfterReturn = FALSE
  /\ batchAfterCancel = FALSE
  /\ client = [c \in 1..NumClients |-> IdleClient]
  /\ returnedIds = [n \in ClusterNames |-> {}]
  /\ incrementsDone = [c \in 1..NumClients |-> [q \in QueryIds |-> 0]]
  /\ call = [fn |-> "none", made |-> 0]
  /\ out = [sqlite |-> NoResult, postgres |-> NoResult]
  /\ peer = EmptyStore

EquivGetOrCreateCluster ==
  /\ ctrl = "equiv"
  /\ call.made < MaxEquivCalls
  /\ \E name \in ClusterNames, ctype \in ClusterTypes :
       LET a == GetOrCreateCluster("sqlite", clusters, clusterSeq, name, ctype)
           b == GetOrCreateCluster("postgres", peer.clusters, peer.clusterSeq,
                                   name, ctype)
       IN /\ clusters' = a.clusters
          /\ clusterSeq' = a.seq
          /\ peer' = [peer EXCEPT !.clusters = b.clusters, !.clusterSeq = b.seq]
          /\ out' = [sqlite |-> Returned([id |-> a.id, err |-> a.err]),
                     postgres |-> Returned([id |-> b.id, err |-> b.err])]
          /\ call' = [fn |-> "GetOrCreateCluster", made |-> call.made + 1,
                      name |-> name, ctype |-> ctype]
  /\ UNCHANGED <<runVars, clientVars, query_errors, query_results, dbFaults>>

EquivIncrementQueryError ==
  /\ ctrl = "equiv"
  /\ call.made < MaxEquivCalls
  /\ \E kpiID \in QueryIds :
       /\ query_errors' = IncrementQueryError(query_errors, kpiID)
       /\ peer' = [peer EXCEPT !.query_errors = IncrementQueryError(@, kpiID)]
       /\ out' = [sqlite |-> Returned("nil"), postgres |-> Returned("nil")]
       /\ call' = [fn |-> "IncrementQueryError", made |-> call.made + 1,
                   kpiID |-> kpiID]
  /\ UNCHANGED <<runVars, clientVars, clusters, clusterSeq, query_results, dbFaults>>

EquivGetQueryErrorCount ==
  /\ ctrl = "equiv"
  /\ call.made < MaxEquivCalls
  /\ \E kpiID \in QueryIds :
       /\ out' = [sqlite |-> Returned(GetQueryErrorCountResult(query_errors, kpiID)),
                  postgres |-> Returned(GetQueryErrorCountResult(peer.query_errors, kpiID))]
       /\ call' = [fn |-> "GetQueryErrorCount", made |-> call.made + 1,
                   kpiID |-> kpiID]
  /\ UNCHANGED <<runVars, clientVars, dbVars, peer>>

\* StoreQueryResults for a cluster id both stores hold.
EquivStoreQueryResults ==
  /\ ctrl = "equiv"
  /\ call.made < MaxEquivCalls
  /\ \E name \in ClusterNames, queryID \in QueryIds, n \in 0..MaxVector :
       LET clusterID == SelectClusterId(clusters, name)
       IN /\ clusterID # 0
          /\ clusterID = SelectClusterId(peer.clusters, name)
          /\ query_results' = StoreQueryResults(query_results, clusterID,
                                                queryID, Vector(n), n)
          /\ peer' = [peer EXCEPT !.query_results =
                        StoreQueryResults(@, clusterID, queryID, Vector(n), n)]
          /\ out' = [sqlite |-> Returned("nil"), postgres |-> Returned("nil")]
          /\ call' = [fn |-> "StoreQueryResults", made |-> call.made + 1,
                      clusterID |-> clusterID, queryID |-> queryID, n |-> n]
  /\ UNCHANGED <<runVars, clientVars, clusters, clusterSeq, query_errors, dbFaults>>

NextEquiv ==
  \/ EquivGetOrCreateCluster
  \/ EquivIncrementQueryError
  \/ EquivGetQueryErrorCount
  \/ EquivStoreQueryResults

SpecEquiv == InitEquiv /\ [][NextEquiv]_vars

\* =============================================================== claims
GroupQueryIds(f) == {kpisByFreq[f][i].ID : i \in 1..Len(kpisByFreq[f])}
NoSlowQuery == \A q \in DOMAIN prom : ~prom[q].slow

\* C1: when Run has returned, every group task that was started has exited
\* and no storage statement (row insert, error-counter increment, cluster
\* get-or-create) has run after the return.
C1_DrainedBeforeReturn ==
  /\ ctrl = "returned" => \A f \in Groups : task[f].pc = "done" /\ task[f].active = 0
  /\ ~writesAfterReturn

\* Run has returned from a run of two groups that both sampled and wrote
\* rows and error counts.
C1_Witness ==
  /\ ctrl = "returned"
  /\ Cardinality(Groups) = 2
  /\ \A f \in Groups : task[f].sampleCount >= 1
  /\ BagCardinality(query_results) > 0
  /\ DOMAIN query_errors # {}

\* C2: no group task begins a batch of queries after the shared context has
\* been cancelled.
C2_NoBatchAfterCancel == ~batchAfterCancel

\* C3: when the run has ended (and no storage statement failed) the error
\* counter of a query whose every execution errors equals the number of
\* samples its group was scheduled to run.
C3_ErrorCountEqualsTicks ==
  (ctrl = "returned" /\ dbFaults = 0) =>
    \A f \in Groups : \A q \in GroupQueryIds(f) :
      prom[q].kinds = {"error"} =>
        GetQueryErrorCount(query_errors, q) = task[f].sampleCount

\* C4: a batch that still has queries to execute after the current one is
\* never stopped by the failure of the current one.
C4_QueryFailureIsolated ==
  \A f \in Groups :
    (task[f].active > 0 /\ task[f].stage = "query"
       /\ task[f].qi < Len(kpisByFreq[f])) =>
      crashCause # "interface conversion"

\* C5: for every interleaving of GetOrCreateCluster calls the clusters table
\* holds at most one row per name, and every call that returns without error
\* returns the id of that row.
C5_ClusterIdStable ==
  \A name \in ClusterNames :
    LET rows == {r \in clusters : r.cluster_name = name}
    IN /\ Cardinality(rows) <= 1
       /\ Cardinality(returnedIds[name]) <= 1
       /\ returnedIds[name] \subseteq {r.id : r \in rows}

\* One caller has created the cluster and got its id while another caller,
\* whose SELECT found nothing, is about to INSERT the same name.
C5_Witness ==
  \E c \in 1..NumClients :
    /\ client[c].pc = "cluster_write"
    /\ client[c].next = "insert"
    /\ returnedIds[client[c].name] # {}

RECURSIVE IncrementsReturned(_, _)
IncrementsReturned(q, c) ==
  IF c = 0 THEN 0 ELSE incrementsDone[c][q] + IncrementsReturned(q, c - 1)

\* C6: starting from no counter row, the stored count of a query id equals
\* the number of IncrementQueryError calls for it that returned without
\* error, whatever the interleaving of the callers.
C6_NoLostIncrement ==
  \A q \in QueryIds :
    GetQueryErrorCount(query_errors, q) = IncrementsReturned(q, NumClients)

\* Two callers have both incremented the same query id, three times in all.
C6_Witness ==
  \E q \in QueryIds :
    /\ incrementsDone[1][q] >= 1
    /\ incrementsDone[2][q] >= 1
    /\ incrementsDone[1][q] + incrementsDone[2][q] >= 3
    /\ q \in DOMAIN query_errors

\* C7: a run that was not interrupted (and whose queries all answer at once)
\* has executed exactly floor(Duration / interval) + 1 samples per group
\* when it returns.
C7_SamplesMatchFormula ==
  (ctrl = "returned" /\ ~interrupted /\ NoSlowQuery) =>
    \A f \in Groups : task[f].sampleCount = (flags.Duration \div f) + 1

\* C8: a group whose interval exceeds the run's duration has executed exactly
\* one sample when an uninterrupted run returns.
C8_OneSampleWhenIntervalExceedsDuration ==
  (ctrl = "returned" /\ ~interrupted) =>
    \A f \in Groups : f > flags.Duration => task[f].sampleCount = 1

\* C9: the run neither returns nor stops before the duration timer has fired
\* unless an interrupt was delivered.
C9_RunLastsFullDuration ==
  (crashed \/ ctrl = "returned") => (interrupted \/ TimerFired)

\* C10: at most one batch of a group task is in progress at any time.
C10_OneBatchPerTask == \A f \in Groups : task[f].active <= 1

\* A tick has arrived while the previous batch of the task is still running.
C10_Witness ==
  \E f \in Groups :
    /\ task[f].pc = "batch"
    /\ task[f].active = 1
    /\ task[f].tickPending

\* A group task is inside a batch whose current query is slow to answer.
InSlowBatch(f) ==
  /\ task[f].active > 0
  /\ task[f].stage = "query"
  /\ prom[kpisByFreq[f][task[f].qi].ID].slow

\* C11: while one group task is blocked inside a slow batch, every other
\* task can take the step it is at: start, take its pending tick, and run
\* each step of its own batch.
C11_SlowGroupDoesNotBlockOthers ==
  \A f \in Groups : \A g \in Groups \ {f} :
    (InSlowBatch(f) /\ ~crashed) =>
      /\ task[g].pc = "spawned" => ENABLED runKPIGroupLoopEnter(g)
      /\ (task[g].pc = "select" /\ task[g].tickPending) =>
           ENABLED runKPIGroupLoopTick(g)
      /\ (task[g].active > 0 /\ task[g].stage = "init") =>
           ENABLED RunQueriesInitDatabase(g)
      /\ (task[g].active > 0 /\ task[g].stage = "cluster_select") =>
           ENABLED RunQueriesClusterSelect(g)
      /\ (task[g].active > 0 /\ task[g].stage = "cluster_write") =>
           ENABLED RunQueriesClusterWrite(g)
      /\ (task[g].active > 0 /\ task[g].stage = "query") =>
           ENABLED executeQuery(g)

\* One task has been inside a slow batch since t=0 and another task's tick
\* has just arrived.
C11_Witness ==
  \E f \in Groups : \E g \in Groups \ {f} :
    /\ InSlowBatch(f)
    /\ now > 0
    /\ task[g].pc = "select"
    /\ task[g].tickPending
    /\ task[g].sampleCount >= 1

ConfigStorageUntouched ==
  /\ Groups = {}
  /\ query_results = EmptyBag
  /\ query_errors = <<>>
  /\ dbFaults = 0
  /\ clusters \subseteq {ClusterRow(1, "c1", "core")}

FlagError ==
  \/ flags.Duration <= 0
  \/ flags.SamplingFreq <= 0
  \/ flags.DatabaseType = "postgres" /\ flags.PostgresURL = ""

\* C12 as stated: with an empty query set, a non-positive duration, a
\* non-positive sampling interval or postgres without a connection string,
\* collector.Run is never entered, no task is started and nothing is written.
C12_ConfigErrorsRejected ==
  (Len(kpis) = 0 \/ FlagError) =>
    (ctrl \in {"cli", "invalid flags"} /\ ConfigStorageUntouched)

\* C12 amended: a non-positive duration, a non-positive sampling interval or
\* postgres without a connection string is returned as an error before
\* collector.Run is entered, no task is started and nothing is written; an
\* empty query set is not an error: Run is entered, starts no task and
\* writes nothing.
C12_FlagErrorsRejected ==
  /\ FlagError => (ctrl \in {"cli", "invalid flags"} /\ ConfigStorageUntouched)
  /\ (~FlagError /\ ctrl # "cli") => ctrl # "invalid flags"
  /\ Len(kpis) = 0 => ConfigStorageUntouched

\* runCollect has returned the error of a command line whose duration is
\* not positive.
C12_Witness ==
  /\ ctrl = "invalid flags"
  /\ flags.Duration <= 0
  /\ flags.SamplingFreq > 0

\* Position of a query in the list given to groupKPIsByFrequency.
InputIndex(q) == CHOOSE i \in 1..Len(call.queries) : call.queries[i] = q

\* C13: for every query list and positive default interval the result of
\* groupKPIsByFrequency is a partition of the input: every query is in the
\* group keyed by its effective interval and in no other, every group holds
\* only input queries, once each and in input order, every key is a positive
\* duration, and an empty input gives an empty map.
C13_GroupingIsPartition ==
  (call.fn = "groupKPIsByFrequency" /\ out.state = "returned") =>
    LET g == out.value
        qs == call.queries
    IN /\ \A i \in 1..Len(qs) : \A f \in DOMAIN g :
            (\E k \in 1..Len(g[f]) : g[f][k] = qs[i])
              <=> f = (IF qs[i].SampleFrequency # NilFrequency
                            /\ qs[i].SampleFrequency[1] > 0
                         THEN qs[i].SampleFrequency[1] ELSE call.defaultFreq)
       /\ \A i \in 1..Len(qs) : \E f \in DOMAIN g : \E k \in 1..Len(g[f]) :
            g[f][k] = qs[i]
       /\ \A f \in DOMAIN g :
            /\ f > 0
            /\ Len(g[f]) > 0
            /\ \A k \in 1..Len(g[f]) : \E i \in 1..Len(qs) : g[f][k] = qs[i]
            /\ \A a, b \in 1..Len(g[f]) :
                 a < b => InputIndex(g[f][a]) < InputIndex(g[f][b])
       /\ qs = <<>> => DOMAIN g = {}

\* Three queries were grouped into two groups, one of them keyed by the
\* default interval and holding two queries.
C13_Witness ==
  /\ call.fn = "groupKPIsByFrequency"
  /\ out.state = "returned"
  /\ Len(call.queries) = 3
  /\ Cardinality(DOMAIN out.value) = 2
  /\ call.defaultFreq \in DOMAIN out.value
  /\ Len(out.value[call.defaultFreq]) = 2

\* C14: GetEffectiveFrequency returns the override when it is present and
\* strictly positive, and the default interval when the override is absent,
\* zero or negative.
C14_EffectiveInterval ==
  (call.fn = "GetEffectiveFrequency" /\ out.state = "returned") =>
    LET o == call.q.SampleFrequency
    IN /\ (o # NilFrequency /\ o[1] > 0) => out.value = o[1]
       /\ o = NilFrequency => out.value = call.defaultFreq
       /\ (o # NilFrequency /\ o[1] = 0) => out.value = call.defaultFreq
       /\ (o # NilFrequency /\ o[1] < 0) => out.value = call.defaultFreq

\* A query whose override is negative was given the default interval.
C14_Witness ==
  /\ call.fn = "GetEffectiveFrequency"
  /\ out.state = "returned"
  /\ call.q.SampleFrequency # NilFrequency
  /\ call.q.SampleFrequency[1] < 0
  /\ out.value = call.defaultFreq

\* C16: for every positive interval and duration, whole seconds or not,
\* calculateTotalSamples returns floor(duration / interval) + 1.
C16_EstimateMatchesFormula ==
  (call.fn = "calculateTotalSamples" /\ out # NoResult) =>
    /\ out.state = "returned"
    /\ out.value = (call.duration \div call.frequency) + 1

\* C15: a group task that has been entered has executed sample 1 before
\* waiting for any tick: no entered task has a sample count of 0, no task is
\* still to be entered once time has passed, sample 1 is the only sample
\* until the first interval has elapsed, and the queries of sample 1 are
\* begun at t=0.
C15_FirstSampleOnEntry ==
  \A f \in Groups :
    /\ task[f].pc # "spawned" => task[f].sampleCount >= 1
    /\ (now > 0 /\ ~crashed) => task[f].pc # "spawned"
    /\ (task[f].pc # "spawned" /\ now < f) => task[f].sampleCount = 1
    /\ (task[f].sampleCount = 1 /\ task[f].stage = "query") =>
         task[f].deadline = Len(kpisByFreq[f]) * queryTimeoutPerKPI

\* At t=0, before any tick, both group tasks are inside the queries of
\* their sample 1.
C15_Witness ==
  /\ now = 0
  /\ Cardinality(Groups) = 2
  /\ \A f \in Groups :
       /\ task[f].sampleCount = 1
       /\ task[f].stage = "query"
       /\ ~task[f].tickPending

QueryDone(f) ==
  /\ task[f].active > 0
  /\ task[f].stage = "query"
  /\ task'[f].qi # task[f].qi \/ task'[f].stage # "query"

CurrentQuery(f) == kpisByFreq[f][task[f].qi]

\* The task goes on to the next query of the batch, or the batch returns to
\* the loop's select when the query was the last one.
ProceedsToNextQuery(f) ==
  /\ crashCause' = "none"
  /\ task[f].qi < Len(kpisByFreq[f]) =>
       /\ task'[f].pc = "batch"
       /\ task'[f].stage = "query"
       /\ task'[f].qi = task[f].qi + 1
  /\ task[f].qi = Len(kpisByFreq[f]) =>
       /\ task'[f].pc = "select"
       /\ task'[f].active = 0

\* C18: a query execution that returns an error adds exactly 1 to that
\* query id's error counter (when the increment statement itself succeeds,
\* and never more than 1), leaves every other counter and every result row
\* as they were, and the batch goes on to its next query.
C18_ErrorIncrementsAndContinues ==
  [][\A f \in Groups :
       (QueryDone(f) /\ (prom[CurrentQuery(f).ID].kinds = {"error"}
                           \/ query_errors' # query_errors)) =>
         LET q == CurrentQuery(f).ID
         IN /\ GetQueryErrorCount(query_errors', q) =
                 GetQueryErrorCount(query_errors, q)
                   + (IF dbFaults' = dbFaults THEN 1 ELSE 0)
            /\ \A o \in QueryIds \ {q} :
                 GetQueryErrorCount(query_errors', o) = GetQueryErrorCount(query_errors, o)
            /\ query_results' = query_results
            /\ ProceedsToNextQuery(f)]_vars

\* In a batch of two queries the first one has failed, its error was
\* counted, no row of it was written, and the second query is next.
C18_Witness ==
  \E f \in Groups :
    /\ Len(kpisByFreq[f]) = 2
    /\ task[f].stage = "query"
    /\ task[f].qi = 2
    /\ task[f].sampleCount = 1
    /\ prom[kpisByFreq[f][1].ID].kinds = {"error"}
    /\ GetQueryErrorCount(query_errors, kpisByFreq[f][1].ID) = 1
    /\ \A r \in BagToSet(query_results) : r.kpi_id # kpisByFreq[f][1].ID

\* C19: a query execution that succeeds with n labeled samples, all rows
\* inserted, adds exactly n result rows, each with the query's id and the id
\* of the run's cluster row, and leaves the error counters as they were;
\* with n = 0 no row is written and no error is counted.
C19_SuccessStoresNRows ==
  [][\A f \in Groups :
       (QueryDone(f) /\ "vector" \in prom[CurrentQuery(f).ID].kinds
          /\ query_errors' = query_errors /\ dbFaults' = dbFaults) =>
         LET q == CurrentQuery(f).ID
             n == prom[q].n
             added == query_results' (-) query_results
         IN /\ query_results \sqsubseteq query_results'
            /\ BagCardinality(added) = n
            /\ \A r \in BagToSet(added) :
                 /\ r.kpi_id = q
                 /\ r.cluster_id = SelectClusterId(clusters, flags.ClusterName)
                 /\ r.cluster_id # 0
            /\ \A i \in 1..n : \E r \in BagToSet(added) : r.metric_labels = MarshalMetric(Vector(n)[i].Metric)
            /\ n = 0 => query_results' = query_results
            /\ ProceedsToNextQuery(f)]_vars

\* Both kinds of success have happened: a query that returned MaxVector
\* samples has its rows in storage, and a batch went past a query that
\* returned no sample, with no row and no error counted for it.
C19_Witness ==
  \E f \in Groups :
    /\ Len(kpisByFreq[f]) = 2
    /\ task[f].stage = "query"
    /\ task[f].qi = 2
    /\ task[f].sampleCount = 2
    /\ prom[kpisByFreq[f][1].ID].n = 0
    /\ "vector" \in prom[kpisByFreq[f][1].ID].kinds
    /\ prom[kpisByFreq[f][2].ID].n = MaxVector
    /\ GetQueryErrorCount(query_errors, kpisByFreq[f][1].ID) = 0
    /\ dbFaults = 0
    /\ BagCardinality(query_results) = MaxVector

\* The step in which StoreQueryResults fails for the current query.
StoreFails(f) ==
  /\ QueryDone(f)
  /\ prom[CurrentQuery(f).ID].kinds = {"vector"}
  /\ dbFaults' = dbFaults + 1

\* C20: when StoreQueryResults fails, fewer rows than the result holds are
\* written and none is written again (the query is not executed a second
\* time in the batch), the batch goes on to its next query, and neither the
\* task nor the run is stopped.
C20_StoreFailureLosesSampleOnly ==
  [][\A f \in Groups :
       StoreFails(f) =>
         /\ BagCardinality(query_results') - BagCardinality(query_results)
              < prom[CurrentQuery(f).ID].n
         /\ query_results \sqsubseteq query_results'
         /\ query_errors' = query_errors
         /\ ProceedsToNextQuery(f)
         /\ task'[f].sampleCount = task[f].sampleCount
         /\ ctrl' = ctrl
         /\ ctxDone' = ctxDone
         /\ wg' = wg]_vars

\* After a failed write of the first query's result in sample 1, the same
\* task has gone on to the second query and later to sample 2.
C20_Witness ==
  \E f \in Groups :
    /\ Len(kpisByFreq[f]) = 2
    /\ prom[kpisByFreq[f][1].ID].kinds = {"vector"}
    /\ prom[kpisByFreq[f][2].ID].kinds = {"vector"}
    /\ dbFaults = 1
    /\ task[f].sampleCount = 2
    /\ task[f].stage = "query"
    /\ task[f].qi = 2
    /\ BagCardinality(query_results) = 2 * MaxVector

\* C21: the queries of a batch begun at t=0 share one deadline,
\* queryTimeoutPerKPI x batch size after the start and the same for every
\* query of the batch however long the earlier ones took; once it has
\* passed no time goes by inside the batch, and every query then left is
\* handled as an error: no row written, its error counted.
C21_SharedBatchDeadline ==
  [][\A f \in Groups :
       (task[f].active > 0 /\ task[f].stage = "query") =>
         /\ task[f].deadline = Len(kpisByFreq[f]) * queryTimeoutPerKPI
         /\ task'[f].stage = "query" => task'[f].deadline = task[f].deadline
         /\ now >= task[f].deadline =>
              /\ now' = now
              /\ QueryDone(f) =>
                   /\ query_results' = query_results
                   /\ crashCause' = "none"
                   /\ \/ dbFaults' = dbFaults + 1 /\ query_errors' = query_errors
                      \/ /\ dbFaults' = dbFaults
                         /\ GetQueryErrorCount(query_errors', CurrentQuery(f).ID) =
                              GetQueryErrorCount(query_errors, CurrentQuery(f).ID) + 1]_vars

\* The first query of a batch of two took the whole deadline; the second
\* one, whose backend answers with a vector at once, failed on being reached
\* and was counted as an error.
C21_Witness ==
  \E f \in Groups :
    /\ Len(kpisByFreq[f]) = 2
    /\ task[f].pc = "select"
    /\ now = 2 * queryTimeoutPerKPI
    /\ prom[kpisByFreq[f][1].ID].slow
    /\ prom[kpisByFreq[f][2].ID].kinds = {"vector"}
    /\ GetQueryErrorCount(query_errors, kpisByFreq[f][2].ID) = 1
    /\ \A r \in BagToSet(query_results) : r.kpi_id # kpisByFreq[f][2].ID

\* C22: after every sequence of GetOrCreateCluster, IncrementQueryError,
\* GetQueryErrorCount and StoreQueryResults calls given to both backends
\* with the same arguments, the two have returned the same result for the
\* last call and hold the same clusters (name, id and category), error
\* counters and result rows.
C22_BackendsEquivalent ==
  ctrl = "equiv" =>
    /\ out.sqlite = out.postgres
    /\ clusters = peer.clusters
    /\ query_errors = peer.query_errors
    /\ query_results = peer.query_results

OpenHandles == {task[f].db : f \in {g \in Groups : task[g].db # NoHandle}}

\* C23 as stated: from the first batch on, every group task holds the one
\* database handle of the run, between its batches as well as inside them.
C23_SingleConnection ==
  /\ Cardinality(OpenHandles) <= 1
  /\ \A f \in Groups :
       (task[f].pc = "select" /\ ctrl \in {"select", "wait"}) =>
         task[f].db # NoHandle

\* C23 amended: a database handle is opened by each batch of each task and
\* closed when that batch returns: a task holds a handle only inside a
\* batch that has passed InitDatabaseWithConfig, the handle is the one that
\* batch opened, and no two tasks hold the same handle.
C23_HandlePerBatch ==
  /\ \A f \in Groups :
       /\ task[f].db # NoHandle <=>
            (task[f].active > 0
               /\ task[f].stage \in {"cluster_select", "cluster_write", "query"})
       /\ task[f].db # NoHandle => task[f].db = Handle(f, task[f].sampleCount)
  /\ \A f \in Groups : \A g \in Groups \ {f} :
       task[f].db # NoHandle => task[f].db # task[g].db

\* Two tasks are inside batches at the same time, each with the handle its
\* own batch opened, one of them in its second sample.
C23_Witness ==
  \E f \in Groups : \E g \in Groups \ {f} :
    /\ task[f].db = Handle(f, 2)
    /\ task[g].db = Handle(g, 1)

\* The stored category of a cluster name, "" when the name is not stored.
StoredCategory(cls, name) ==
  IF \E r \in cls : r.cluster_name = name
    THEN (CHOOSE r \in cls : r.cluster_name = name).cluster_type
    ELSE ""

\* What GetOrCreateCluster(name, ctype) has to do to a store that already
\* holds the name: set the category when ctype is non-empty, keep it when
\* empty, return the existing id, add no row.
UpdatesExisting(before, after, ret, name, ctype) ==
  /\ StoredCategory(after, name) =
       (IF ctype # "" THEN ctype ELSE StoredCategory(before, name))
  /\ ret = Returned([id |-> SelectClusterId(before, name), err |-> FALSE])
  /\ Cardinality(after) = Cardinality(before)
  /\ \A r \in before : r.cluster_name # name => r \in after

\* C24: on either backend GetOrCreateCluster(name, category) for a name the
\* store already holds sets the stored category to a non-empty category,
\* keeps it for an empty one, returns the existing id and adds no row.
C24_ExistingClusterCategory ==
  [][(ctrl = "equiv" /\ call'.made = call.made + 1
        /\ call'.fn = "GetOrCreateCluster"
        /\ SelectClusterId(clusters, call'.name) # 0
        /\ SelectClusterId(peer.clusters, call'.name) # 0) =>
       /\ UpdatesExisting(clusters, clusters', out'.sqlite,
                          call'.name, call'.ctype)
       /\ UpdatesExisting(peer.clusters, peer'.clusters, out'.postgres,
                          call'.name, call'.ctype)]_vars

\* C25: GetQueryErrorCount for a query id with no counter row returns the
\* count 0 and a nil error, on either backend.
C25_UnknownIdCountsZero ==
  (ctrl = "equiv" /\ call.fn = "GetQueryErrorCount") =>
    /\ call.kpiID \notin DOMAIN query_errors =>
         out.sqlite = Returned([count |-> 0, err |-> "nil"])
    /\ call.kpiID \notin DOMAIN peer.query_errors =>
         out.postgres = Returned([count |-> 0, err |-> "nil"])

\* The count of a query id with no error was asked for in a store that
\* holds a counter for another id.
C25_Witness ==
  /\ ctrl = "equiv"
  /\ call.fn = "GetQueryErrorCount"
  /\ call.kpiID \notin DOMAIN query_errors
  /\ DOMAIN query_errors # {}
  /\ out.sqlite = Returned([count |-> 0, err |-> "nil"])

\* C26: a label set read back from the row StoreQueryResults wrote for it,
\* and deserialized, is the label set of the sample: the same names with the
\* same values, none added and none dropped.
C26_LabelsRoundTrip ==
  (ctrl = "pure" /\ call.fn = "StoreQueryResults" /\ out.state = "returned")
    => /\ DOMAIN out.value = DOMAIN call.metric
       /\ \A k \in DOMAIN call.metric : out.value[k] = call.metric[k]

\* C26 witness: a stored label set with every name and a value holding
\* characters JSON escapes has been read back from the JSONB column.
C26_Witness ==
  /\ ctrl = "pure" /\ call.fn = "StoreQueryResults" /\ out.state = "returned"
  /\ call.dbType = "postgres"
  /\ DOMAIN call.metric = LabelNames
  /\ call.metric["app"] = <<"\"", "<">>
  /\ call.metric["ns"] = <<"\\", "a">>
  /\ BagCardinality(query_results) = 1

\* C27: a GetOrCreateCluster call of a batch, with no statement failing for
\* a reason of the storage's own, succeeds whatever the other groups' batches
\* do at the same time, so its batch goes on to its queries.
C27_ConcurrentGetOrCreateSucceeds ==
  [][\A f \in Groups :
       (task[f].active > 0 /\ task[f].stage = "cluster_write"
          /\ task'[f] # task[f] /\ dbFaults' = dbFaults)
         => task'[f].stage = "query"]_vars

\* The step task f takes is a failure of its batch's setup: the database
\* cannot be opened, GetOrCreateCluster's statement fails, or the metrics
\* client cannot be built.
SetupFails(f) ==
  /\ task[f].active > 0
  /\ task'[f] # task[f]
  /\ \/ /\ task[f].stage = "init"
        /\ NewDatabaseFails(flags) \/ dbFaults' > dbFaults
     \/ /\ task[f].stage = "cluster_write"
        /\ \/ dbFaults' > dbFaults
           \/ GetOrCreateClusterWrite(flags.DatabaseType, clusters, clusterSeq,
                  task[f].next, task[f].clusterID, flags.ClusterName,
                  flags.ClusterType).err
           \/ setupPromClientFails(flags)
     \/ /\ task[f].stage = "cluster_select"
        /\ GetOrCreateClusterSelect(flags.DatabaseType, clusters,
              flags.ClusterName, flags.ClusterType).next = "return"
        /\ setupPromClientFails(flags)

\* C28: a batch whose setup fails executes no query, writes no result row,
\* increments no error counter, and its task goes back to waiting for its
\* next tick.
C28_SetupFailureSkipsBatch ==
  [][\A f \in Groups :
       SetupFails(f) =>
         /\ task'[f].stage = "none"
         /\ task'[f].pc = "select"
         /\ task'[f].active = task[f].active - 1
         /\ query_results' = query_results
         /\ query_errors' = query_errors
         /\ crashCause' = "none"]_vars

\* C28 witness: with a metrics client that cannot be built, a task has run
\* two batches, none is in progress, and nothing has been written.
C28_Witness ==
  /\ setupPromClientFails(flags)
  /\ \E f \in Groups :
       /\ task[f].sampleCount = 2
       /\ task[f].stage = "none"
       /\ task[f].pc = "select"
  /\ query_results = EmptyBag
  /\ query_errors = <<>>
  /\ clusters # {}

\* C29: once the shared context is cancelled, a batch that is executing its
\* queries is carried to its end: the process does not stop, the task does
\* not exit, and the batch is left only behind its last query.
C29_BatchNotCutShort ==
  [][\A f \in Groups :
       (ctxDone /\ task[f].active > 0 /\ task[f].stage = "query")
         => /\ crashCause' = "none"
            /\ task'[f].pc # "done"
            /\ task'[f].stage # "query" => task[f].qi = Len(kpisByFreq[f])]_vars

\* C30: once the duration timer has fired or an interrupt has arrived in a
\* run that was started, Run returns in the end.
C30_RunEventuallyReturns ==
  ((ctrl \in {"select", "wait"} /\ (TimerFired \/ interruptChan \/ ctxDone))
     ~> ctrl = "returned")

====
